---------------------------- MODULE Spec2Model ----------------------------
(***************************************************************************)
(* vmf_parser_nom: the parser (owned/parsers.rs, lib.rs) and the two       *)
(* serializers (owned/ast/display.rs) of the Valve Map Format.             *)
(*                                                                         *)
(* A text is a sequence of one-character strings.  A parser takes the      *)
(* error instantiation E, the whole text s and the index i of the first    *)
(* remaining character, and returns either [ok |-> TRUE, i, val] (i is the *)
(* index of the first character left) or [ok |-> FALSE, err].              *)
(***************************************************************************)
EXTENDS Integers, Sequences, FiniteSets, TLC

VARIABLES
    input,      \* the text buffer handed to parse
    result,     \* what parse returned for input: Ok(vmf) or Err(e); NoResult before
    vmf,        \* the document the caller holds (from parse or from Vmf::new)
    output,     \* the text produced by the last to_string / to_string_new_ids
    mode,       \* which serializer produced output: "none", "canon", "ids"
    state,      \* the IdState at the end of the last serialization call
    prev,       \* the document whose rendering was fed back as input
    round,      \* how many times a rendering was fed back to parse
    items,      \* the body items the first input text was written from
    pc          \* "input": text to parse; "doc": document held; "text": rendered;
                \* "failed": parse returned an error

vars == <<input, result, vmf, output, mode, state, prev, round, items, pc>>

-----------------------------------------------------------------------------
(* Bounds of the model *)

\* pieces in a raw input text
MaxPieces == 4
\* items in the body of a generated block
MaxItems == 3
\* blocks of a document built with Block::new
MaxBlocks == 3
\* renderings fed back to parse
MaxRounds == 1
\* the longest rendered text that is handed back to parse
MaxText == 48

-----------------------------------------------------------------------------
(* Characters *)

Quote == "\""
NL == "\n"
TAB == "\t"

Lower == {"a","b","c","d","e","f","g","h","i","j","k","l","m",
          "n","o","p","q","r","s","t","u","v","w","x","y","z"}
Upper == {"A","B","C","D","E","F","G","H","I","J","K","L","M",
          "N","O","P","Q","R","S","T","U","V","W","X","Y","Z"}
Digit == {"0","1","2","3","4","5","6","7","8","9"}

\* nom's multispace: space, tab, carriage return, line feed
IsMultispace(c) == c \in {" ", "\t", "\r", "\n"}

\* nom's alphanumeric (ASCII letters and digits)
IsAlphanumeric(c) == c \in Lower \cup Upper \cup Digit

RECURSIVE ConcatRange(_, _, _)
ConcatRange(ts, lo, hi) ==
    IF lo > hi THEN <<>>
    ELSE IF lo = hi THEN ts[lo]
    ELSE LET mid == (lo + hi) \div 2
         IN ConcatRange(ts, lo, mid) \o ConcatRange(ts, mid + 1, hi)

\* the concatenation of a sequence of texts
Concat(ts) == ConcatRange(ts, 1, Len(ts))

-----------------------------------------------------------------------------
(* The error capability E: ParseError + ContextError.                      *)
(* "unit" is (), "tuple" is (I, ErrorKind), "simple" is nom::error::Error, *)
(* "verbose" is VerboseError.  A payload is a sequence of (position, tag)  *)
(* entries: empty for (), one entry for tuple and simple, the chain for    *)
(* verbose.                                                                *)

ErrorTypes == {"verbose", "simple", "tuple", "unit"}

Entry(i, tag, what) == [pos |-> i, tag |-> tag, what |-> what]

\* ParseError::from_error_kind
from_error_kind(E, i, kind) ==
    IF E = "unit" THEN <<>> ELSE <<Entry(i, "Nom", kind)>>

\* ParseError::from_char: VerboseError records the character, the others
\* fall back to from_error_kind(input, ErrorKind::Char)
from_char(E, i, c) ==
    IF E = "verbose" THEN <<Entry(i, "Char", c)>>
    ELSE from_error_kind(E, i, "Char")

\* ParseError::append: only VerboseError keeps the chain
append(E, i, kind, other) ==
    IF E = "verbose" THEN Append(other, Entry(i, "Nom", kind)) ELSE other

\* ContextError::add_context: only VerboseError records the tag
add_context(E, i, ctx, other) ==
    IF E = "verbose" THEN Append(other, Entry(i, "Context", ctx)) ELSE other

\* ParseError::or (default): the later error wins
or(E, self, other) == other

Ok(i, val) == [ok |-> TRUE, i |-> i, val |-> val]
Err(e) == [ok |-> FALSE, err |-> e]

\* the ? operator: the error of r, or what follows its success
Then(r, Next(_)) == IF r.ok THEN Next(r) ELSE r

\* if let Ok(..) = r { .. } else { .. }
IfLetOk(r, OnOk(_), OnErr(_)) == IF r.ok THEN OnOk(r) ELSE OnErr(r)

\* nom's context(ctx, f): tags the error of f with ctx at the input of f
context(E, i, ctx, r) == IF r.ok THEN r ELSE Err(add_context(E, i, ctx, r.err))

-----------------------------------------------------------------------------
(* Lexical primitives *)

\* char(c)
char(E, s, i, c) ==
    IF i <= Len(s) /\ s[i] = c THEN Ok(i + 1, c) ELSE Err(from_char(E, i, c))

\* tag(t)
tag(E, s, i, t) ==
    IF i + Len(t) - 1 <= Len(s) /\ SubSeq(s, i, i + Len(t) - 1) = t
    THEN Ok(i + Len(t), t)
    ELSE Err(from_error_kind(E, i, "Tag"))

\* the index of the first character at or after i that is not in the class
\* (the end of the text when every character left is in it)
SkipWhile(InClass(_), s, i) ==
    LET stops == {j \in i..Len(s) : ~InClass(s[j])}
    IN IF stops = {} THEN Len(s) + 1
       ELSE CHOOSE j \in stops : \A k \in stops : j <= k

\* multispace0: never fails
multispace0(s, i) == SkipWhile(IsMultispace, s, i)

\* multispace0 where multispace1 belongs: succeeds on no whitespace at all
multispace1_or_none(E, s, i) == Ok(multispace0(s, i), <<>>)

\* multispace1: at least one whitespace character
multispace1(E, s, i) ==
    IF i <= Len(s) /\ IsMultispace(s[i]) THEN Ok(multispace0(s, i), <<>>)
    ELSE Err(from_error_kind(E, i, "MultiSpace"))

IsNotQuote(c) == c # Quote
IsNotEol(c) == c \notin {"\n", "\r"}
IsIdentChar(c) == IsAlphanumeric(c) \/ c = "_"

\* take_until("\""): the text before the next quote; fails when there is none
take_until(E, s, i) ==
    IF \E j \in i..Len(s) : s[j] = Quote
    THEN Ok(SkipWhile(IsNotQuote, s, i), i)
    ELSE Err(from_error_kind(E, i, "TakeUntil"))

\* is_not_no_fail("\n\r"): up to the next line end, possibly nothing
is_not_no_fail(s, i) == SkipWhile(IsNotEol, s, i)

\* surrounded_by(char('"'), take_until("\""), char('"')) under "string error"
string(E, s, i) ==
    context(E, i, "string error",
        Then(char(E, s, i, Quote), LAMBDA first :
        Then(take_until(E, s, first.i), LAMBDA second :
        Then(char(E, s, second.i, Quote), LAMBDA third :
        Ok(third.i, SubSeq(s, first.i, second.i - 1))))))

\* comment: "//" and the rest of the line, the line end not consumed
comment(E, s, i) ==
    context(E, i, "comment error",
        Then(tag(E, s, i, <<"/", "/">>), LAMBDA t :
        Ok(is_not_no_fail(s, t.i), <<>>)))

\* ignorable: alt((comment, value((), multispace1)))
ignorable(E, s, i) ==
    context(E, i, "ignorable error",
        IfLetOk(comment(E, s, i), LAMBDA a : a, LAMBDA a :
        IfLetOk(multispace1(E, s, i), LAMBDA b : b, LAMBDA b :
        Err(append(E, i, "Alt", or(E, a.err, b.err))))))

RECURSIVE many0_count_ignorable(_, _, _)
\* many0_count(ignorable): the index after every leading comment and space
many0_count_ignorable(E, s, i) ==
    IfLetOk(ignorable(E, s, i),
            LAMBDA r : many0_count_ignorable(E, s, r.i),
            LAMBDA r : i)

\* identifier: recognize(many1_count(alt((alphanumeric1, tag("_")))))
identifier(E, s, i) ==
    context(E, i, "bad identifier",
        IF i <= Len(s) /\ IsIdentChar(s[i])
        THEN Ok(SkipWhile(IsIdentChar, s, i), i)
        ELSE Err(from_error_kind(E, i, "Many1Count")))

\* ignore_whitespace(char(c)): the character with the whitespace around it
ignore_whitespace_char(E, s, i, c) ==
    Then(char(E, s, multispace0(s, i), c), LAMBDA r :
    Ok(multispace0(s, r.i), <<>>))

\* open_brace: value((), ignore_whitespace(char('{'))) under "missing '{'"
open_brace(E, s, i) ==
    context(E, i, "missing '{'", ignore_whitespace_char(E, s, i, "{"))

-----------------------------------------------------------------------------
(* The tree: Block {name, props, blocks}, Property {key, value}, Vmf {inner} *)

ROOT_NAME == <<"r", "o", "o", "t">>

\* Property::new
Property_new(key, value) == [key |-> key, value |-> value]

\* Block::new
Block_new(name, props, blocks) == [name |-> name, props |-> props, blocks |-> blocks]

\* Vmf::new: the blocks under a root block with no properties
Vmf_new(blocks) == [inner |-> Block_new(ROOT_NAME, <<>>, blocks)]

-----------------------------------------------------------------------------
(* Property, block and document parsers *)

\* a property whose value may be missing: a key alone is a property with
\* an empty value
property_key_only(E, s, i) ==
    context(E, i, "property error",
        Then(string(E, s, multispace0(s, i)), LAMBDA key :
        IfLetOk(string(E, s, multispace0(s, key.i)),
            LAMBDA value : Ok(multispace0(s, value.i), Property_new(key.val, value.val)),
            LAMBDA value : Ok(multispace0(s, key.i), Property_new(key.val, <<>>)))))

\* property: ignore_whitespace(separated_pair(string, multispace0, string))
\* under "property error"
property(E, s, i) ==
    context(E, i, "property error",
        Then(string(E, s, multispace0(s, i)), LAMBDA key :
        Then(string(E, s, multispace0(s, key.i)), LAMBDA value :
        Ok(multispace0(s, value.i), Property_new(key.val, value.val)))))

\* terminated(ignore_whitespace(identifier), open_brace): the block's name
block_name(E, s, i) ==
    Then(identifier(E, s, multispace0(s, i)), LAMBDA name :
    Then(open_brace(E, s, multispace0(s, name.i)), LAMBDA brace :
    Ok(brace.i, SubSeq(s, name.val, name.i - 1))))

\* the error built where the block gives up
block_error(E, i, ctx) == Err(add_context(E, i, ctx, from_error_kind(E, i, "Fail")))

\* how the body loop ended
Body(props, blocks, has_ending_brace) ==
    [props |-> props, blocks |-> blocks, has_ending_brace |-> has_ending_brace]

RECURSIVE block(_, _, _), block_loop(_, _, _, _, _)
\* a body loop that puts each property in front of those it has: the
\* ordering fault C8 rules out
block_loop_prepend(E, s, i, props, blocks) ==
    IfLetOk(property(E, s, i),
        LAMBDA p : block_loop(E, s, p.i, <<p.val>> \o props, blocks),
        LAMBDA p :
    IfLetOk(block(E, s, i),
        LAMBDA b : block_loop(E, s, b.i, props, Append(blocks, b.val)),
        LAMBDA b :
    IfLetOk(ignorable(E, s, i),
        LAMBDA g : block_loop(E, s, g.i, props, blocks),
        LAMBDA g :
    IfLetOk(ignore_whitespace_char(E, s, i, "}"),
        LAMBDA c : Ok(c.i, Body(props, blocks, TRUE)),
        LAMBDA c :
    IF i > Len(s) THEN Ok(i, Body(props, blocks, FALSE))
    ELSE block_error(E, i, "no parsers matched in block")))))

\* a body loop whose error is built on the error of the property it tried,
\* so that the contexts of the property stay in the chain
block_loop_chain(E, s, i, props, blocks) ==
    IfLetOk(property(E, s, i),
        LAMBDA p : block_loop(E, s, p.i, Append(props, p.val), blocks),
        LAMBDA p :
    IfLetOk(block(E, s, i),
        LAMBDA b : block_loop(E, s, b.i, props, Append(blocks, b.val)),
        LAMBDA b :
    IfLetOk(ignorable(E, s, i),
        LAMBDA g : block_loop(E, s, g.i, props, blocks),
        LAMBDA g :
    IfLetOk(ignore_whitespace_char(E, s, i, "}"),
        LAMBDA c : Ok(c.i, Body(props, blocks, TRUE)),
        LAMBDA c :
    IF i > Len(s) THEN Ok(i, Body(props, blocks, FALSE))
    ELSE Err(add_context(E, i, "no parsers matched in block", p.err))))))

\* the body loop of block: property, else block, else ignorable, else '}',
\* else end of input, else error
block_loop(E, s, i, props, blocks) ==
    IfLetOk(property(E, s, i),
        LAMBDA p : block_loop(E, s, p.i, Append(props, p.val), blocks),
        LAMBDA p :
    IfLetOk(block(E, s, i),
        LAMBDA b : block_loop(E, s, b.i, props, Append(blocks, b.val)),
        LAMBDA b :
    IfLetOk(ignorable(E, s, i),
        LAMBDA g : block_loop(E, s, g.i, props, blocks),
        LAMBDA g :
    IfLetOk(ignore_whitespace_char(E, s, i, "}"),
        LAMBDA c : Ok(c.i, Body(props, blocks, TRUE)),
        LAMBDA c :
    IF i > Len(s) THEN Ok(i, Body(props, blocks, FALSE))
    ELSE block_error(E, i, "no parsers matched in block")))))

\* a block that does not check has_ending_brace: the lenient reading of a
\* body that ends with the input
block_lenient(E, s, i) ==
    Then(block_name(E, s, many0_count_ignorable(E, s, i)), LAMBDA name :
    Then(block_loop(E, s, name.i, <<>>, <<>>), LAMBDA body :
    Ok(body.i, Block_new(name.val, body.val.props, body.val.blocks))))

\* block: leading ignorables, name, '{', body, and the check of the brace
block(E, s, i) ==
    Then(block_name(E, s, many0_count_ignorable(E, s, i)), LAMBDA name :
    Then(block_loop(E, s, name.i, <<>>, <<>>), LAMBDA body :
    IF body.val.has_ending_brace
    THEN Ok(body.i, Block_new(name.val, body.val.props, body.val.blocks))
    ELSE block_error(E, body.i, "missing } in block")))

RECURSIVE many1_loop(_, _, _, _)
\* many1 after its first element: stops at the first Err::Error and returns
\* what it has, with the input left there
many1_loop(E, s, i, acc) ==
    IfLetOk(block(E, s, i),
        LAMBDA r : IF r.i = i THEN Err(from_error_kind(E, i, "Many1"))
                   ELSE many1_loop(E, s, r.i, Append(acc, r.val)),
        LAMBDA r : Ok(i, acc))

\* vmf with many0 in place of many1: no block at all is a document
vmf_many0(E, s, i) ==
    IfLetOk(block(E, s, i),
        LAMBDA first :
            Then(many1_loop(E, s, first.i, <<first.val>>), LAMBDA all :
            Ok(all.i, Vmf_new(all.val))),
        LAMBDA first : Ok(i, Vmf_new(<<>>)))

\* vmf: map(many1(block), Vmf::new)
vmf_parser(E, s, i) ==
    IfLetOk(block(E, s, i),
        LAMBDA first :
            Then(many1_loop(E, s, first.i, <<first.val>>), LAMBDA all :
            Ok(all.i, Vmf_new(all.val))),
        LAMBDA first : Err(append(E, i, "Many1", first.err)))

\* parse: the document or the error of vmf; the input left over is dropped
parse(E, s) ==
    IfLetOk(vmf_parser(E, s, 1),
        LAMBDA r : [ok |-> TRUE, vmf |-> r.val],
        LAMBDA r : [ok |-> FALSE, err |-> r.err, etype |-> E])

-----------------------------------------------------------------------------
(* Serializers *)

FMT_PADDING == <<TAB>>

\* PadAdapter::new
PadAdapter_new == [buf |-> <<>>, on_newline |-> FALSE]

\* a write_str that pads only the start of what one call writes, not the
\* lines inside it
write_str_first_only(adapter, s) ==
    [buf |-> adapter.buf
             \o (IF s # <<>> /\ adapter.on_newline THEN FMT_PADDING ELSE <<>>) \o s,
     on_newline |-> IF s = <<>> THEN adapter.on_newline ELSE s[Len(s)] = NL]

\* PadAdapter::write_str: s is cut after each line end; the padding goes
\* before a piece when on_newline is set, and on_newline becomes whether the
\* piece ends with a line end.  So a character is padded when it starts a
\* piece after a line end: the first one when on_newline was set, any other
\* when the character before it is a line end.
write_str(adapter, s) ==
    LET padded == [k \in 1..Len(s) |->
                     IF (IF k = 1 THEN adapter.on_newline ELSE s[k - 1] = NL)
                     THEN FMT_PADDING \o <<s[k]>>
                     ELSE <<s[k]>>]
    IN [buf |-> adapter.buf \o Concat(padded),
        on_newline |-> IF s = <<>> THEN adapter.on_newline ELSE s[Len(s)] = NL]

RECURSIVE write_all(_, _)
\* successive writeln!(adapter, "{}", t) for the texts t of ts
write_all(adapter, ts) ==
    IF ts = <<>> THEN adapter
    ELSE write_all(write_str(adapter, Head(ts) \o <<NL>>), Tail(ts))

\* Display for Property: "key" "value"
Display_Property(p) ==
    <<Quote>> \o p.key \o <<Quote, " ", Quote>> \o p.value \o <<Quote>>

RECURSIVE Display_Block(_)
\* Display for Block: the name, then through a PadAdapter the brace, the
\* properties and the child blocks, then the closing brace
Display_Block(b) ==
    LET a1 == write_str(PadAdapter_new, <<"{", NL>>)
        a2 == write_all(a1, [k \in 1..Len(b.props) |-> Display_Property(b.props[k])])
        a3 == write_all(a2, [k \in 1..Len(b.blocks) |-> Display_Block(b.blocks[k])])
    IN b.name \o <<NL>> \o a3.buf \o <<"}">>

RECURSIVE ToDecimalDigits(_)
ToDecimalDigits(n) ==
    LET d == <<"0","1","2","3","4","5","6","7","8","9">>[(n % 10) + 1]
    IN IF n < 10 THEN <<d>> ELSE ToDecimalDigits(n \div 10) \o <<d>>

\* Display for i32
ToDecimal(n) == IF n < 0 THEN <<"-">> \o ToDecimalDigits(-n) ELSE ToDecimalDigits(n)

\* IdState::default
IdState_default ==
    [max_world_id |-> 0, max_solid_id |-> 0, max_side_id |-> 0, max_entity_id |-> 0]

ID_KEY == <<"i", "d">>
WORLD == <<"w", "o", "r", "l", "d">>
SOLID == <<"s", "o", "l", "i", "d">>
SIDE == <<"s", "i", "d", "e">>
ENTITY == <<"e", "n", "t", "i", "t", "y">>

\* Property::is_id
is_id(p) == p.key = ID_KEY

\* the "id" line write_new_id writes through f
id_line(n) == <<Quote>> \o ID_KEY \o <<Quote, " ", Quote>> \o ToDecimal(n) \o <<Quote, NL>>

\* Block::write_new_id: a recognized class bumps its counter and writes the
\* id line; any other name writes the block itself ("{self}") through f
write_new_id(b, f, st) ==
    IF b.name = WORLD
    THEN [f |-> write_str(f, id_line(st.max_world_id + 1)),
          state |-> [st EXCEPT !.max_world_id = @ + 1]]
    ELSE IF b.name = SOLID
    THEN [f |-> write_str(f, id_line(st.max_solid_id + 1)),
          state |-> [st EXCEPT !.max_solid_id = @ + 1]]
    ELSE IF b.name = SIDE
    THEN [f |-> write_str(f, id_line(st.max_side_id + 1)),
          state |-> [st EXCEPT !.max_side_id = @ + 1]]
    ELSE IF b.name = ENTITY
    THEN [f |-> write_str(f, id_line(st.max_entity_id + 1)),
          state |-> [st EXCEPT !.max_entity_id = @ + 1]]
    ELSE [f |-> write_str(f, Display_Block(b) \o <<NL>>), state |-> st]

RECURSIVE fmt_new_ids(_, _), fmt_new_ids_blocks(_, _, _, _)
\* the loop of fmt_new_ids over the child blocks: each child through the
\* adapter with the shared state, then a line end
fmt_new_ids_blocks(blocks, k, f, st) ==
    IF k > Len(blocks) THEN [f |-> f, state |-> st]
    ELSE LET child == fmt_new_ids(blocks[k], st)
         IN fmt_new_ids_blocks(blocks, k + 1,
                               write_str(f, child.text \o <<NL>>), child.state)

\* Block::fmt_new_ids: the text written to f and the state afterwards
fmt_new_ids(b, st) ==
    LET a1 == write_str(PadAdapter_new, <<"{", NL>>)
        w == write_new_id(b, a1, st)
        kept == SelectSeq(b.props, LAMBDA p : ~is_id(p))
        a3 == write_all(w.f, [k \in 1..Len(kept) |-> Display_Property(kept[k])])
        r == fmt_new_ids_blocks(b.blocks, 1, a3, w.state)
    IN [text |-> b.name \o <<NL>> \o r.f.buf \o <<"}">>, state |-> r.state]

RECURSIVE Display_Vmf_blocks(_, _, _, _, _)
\* the loop of Display for Vmf over the top-level blocks
Display_Vmf_blocks(blocks, k, is_alternate, text, st) ==
    IF k > Len(blocks) THEN [text |-> text, state |-> st]
    ELSE LET one == IF is_alternate THEN fmt_new_ids(blocks[k], st)
                    ELSE [text |-> Display_Block(blocks[k]), state |-> st]
             sep == IF k < Len(blocks) THEN <<NL>> ELSE <<>>
         IN Display_Vmf_blocks(blocks, k + 1, is_alternate,
                               text \o one.text \o sep, one.state)

\* Display for Vmf that writes the root block like any other block
Display_Vmf_root(v, is_alternate) ==
    IF is_alternate THEN fmt_new_ids(v.inner, IdState_default)
    ELSE [text |-> Display_Block(v.inner), state |-> IdState_default]

\* Display for Vmf with the counters kept between calls (IdState held in a
\* static instead of a local of fmt)
Display_Vmf_static(v, is_alternate) ==
    Display_Vmf_blocks(v.inner.blocks, 1, is_alternate, <<>>, state)

\* Display for Vmf: {} is the canonical rendering, {:#} renumbers the ids
Display_Vmf(v, is_alternate) ==
    Display_Vmf_blocks(v.inner.blocks, 1, is_alternate, <<>>, IdState_default)


-----------------------------------------------------------------------------
(* Input texts *)

\* the sequences of at most n elements of S
SeqUpTo(S, n) == UNION {[1..k -> S] : k \in 0..n}

\* the pieces raw input texts are assembled from: a name, the braces, a
\* string, a line end, a comment, a complete empty block
Pieces ==
    { <<"a">>, <<"{">>, <<"}">>, <<Quote, "s", Quote>>, <<NL>>,
      <<"/", "/", "c">>, <<"b", "{", "}">> }

RawInputs == {Concat(ps) : ps \in SeqUpTo(Pieces, MaxPieces)}

RECURSIVE Compact(_)
\* a block written with no whitespace at all, as tests::INPUT_NO_WHITE is
Compact(b) ==
    b.name \o <<"{">>
    \o Concat([k \in 1..Len(b.props) |->
                 <<Quote>> \o b.props[k].key \o <<Quote, Quote>>
                 \o b.props[k].value \o <<Quote>>])
    \o Concat([k \in 1..Len(b.blocks) |-> Compact(b.blocks[k])])
    \o <<"}">>

\* the items a block body is written from, in any order: properties (with
\* the text between key and value), child blocks, a comment, whitespace
PropItems ==
    { [kind |-> "prop", key |-> <<>>, value |-> <<>>, sep |-> <<" ">>],
      [kind |-> "prop", key |-> <<"k">>, value |-> <<"v">>, sep |-> <<>>],
      [kind |-> "prop", key |-> <<"k">>, value |-> <<"w", NL, "x">>,
       sep |-> <<NL, TAB>>] }

BlockItems ==
    { [kind |-> "block", block |-> Block_new(<<"b">>, <<>>, <<>>)],
      [kind |-> "block",
       block |-> Block_new(<<"c", "_", "2">>,
                           <<Property_new(<<"k">>, <<"v">>)>>,
                           <<Block_new(<<"d">>, <<>>, <<>>)>>)] }

OtherItems ==
    { [kind |-> "comment", text |-> <<"/", "/", Quote, "}", NL>>],
      [kind |-> "space", text |-> <<" ", TAB>>] }

Items == PropItems \cup BlockItems \cup OtherItems

ItemText(it) ==
    IF it.kind = "prop"
    THEN <<Quote>> \o it.key \o <<Quote>> \o it.sep \o <<Quote>> \o it.value \o <<Quote>>
    ELSE IF it.kind = "block" THEN Compact(it.block)
    ELSE it.text

\* one top-level block named A whose body is the items in order
BodyText(its) ==
    <<"A", "{">> \o Concat([k \in 1..Len(its) |-> ItemText(its[k])]) \o <<"}">>

\* the block BodyText(its) describes: the properties in the order of the
\* items, the child blocks in the order of the items
ItemProps(its) ==
    LET ps == SelectSeq(its, LAMBDA it : it.kind = "prop")
    IN [k \in 1..Len(ps) |-> Property_new(ps[k].key, ps[k].value)]

ItemBlocks(its) ==
    LET bs == SelectSeq(its, LAMBDA it : it.kind = "block")
    IN [k \in 1..Len(bs) |-> bs[k].block]

-----------------------------------------------------------------------------
(* Documents built with Block::new and Vmf::new *)

\* name and properties of the blocks documents are built from
Templates ==
    { [name |-> WORLD, props |-> <<>>],
      [name |-> SOLID, props |-> <<Property_new(ID_KEY, <<"7">>)>>],
      [name |-> SIDE,
       props |-> <<Property_new(<<"k">>, <<"v">>),
                   Property_new(ID_KEY, <<"4", "2">>),
                   Property_new(<<"k">>, <<"w">>)>>],
      [name |-> ENTITY,
       props |-> <<Property_new(ID_KEY, <<"7">>), Property_new(ID_KEY, <<"8">>)>>],
      [name |-> <<"b", "r", "u", "s", "h">>,
       props |-> <<Property_new(ID_KEY, <<"7", "7">>)>>] }

\* a document in pre-order: each node with its depth; a node is at most one
\* level below the node before it
PreOrders ==
    { ns \in UNION {[1..n -> (0..(MaxBlocks - 1)) \X Templates] : n \in 1..MaxBlocks} :
        /\ ns[1][1] = 0
        /\ \A k \in 2..Len(ns) : ns[k][1] <= ns[k - 1][1] + 1 }

RECURSIVE SubtreeEnd(_, _, _)
\* the first index at or after k whose node is not deeper than d
SubtreeEnd(ns, k, d) ==
    IF k > Len(ns) \/ ns[k][1] <= d THEN k ELSE SubtreeEnd(ns, k + 1, d)

RECURSIVE Forest(_, _)
\* the blocks at depth d that the pre-order ns lists
Forest(ns, d) ==
    IF ns = <<>> THEN <<>>
    ELSE LET e == SubtreeEnd(ns, 2, d)
         IN <<Block_new(ns[1][2].name, ns[1][2].props,
                        Forest(SubSeq(ns, 2, e - 1), d + 1))>>
            \o Forest(SubSeq(ns, e, Len(ns)), d)

BuiltDocs == {Vmf_new(Forest(ns, 0)) : ns \in PreOrders}

-----------------------------------------------------------------------------
(* The state machine: a caller that parses, serializes and parses again *)

NoResult == [ok |-> FALSE, err |-> <<>>, etype |-> "none"]

\* Vmf::default
Vmf_default == Vmf_new(<<>>)

NoPrev == [vmf |-> Vmf_default, mode |-> "none"]

InitCommon ==
    /\ result = NoResult
    /\ output = <<>>
    /\ mode = "none"
    /\ state = IdState_default
    /\ prev = NoPrev
    /\ round = 0

\* a text written from body items is about to be parsed
Init ==
    /\ InitCommon
    /\ items \in SeqUpTo(Items, MaxItems)
    /\ input = BodyText(items)
    /\ vmf = Vmf_default
    /\ pc = "input"

\* a raw text is about to be parsed
InitRaw ==
    /\ InitCommon
    /\ items = <<>>
    /\ input \in RawInputs
    /\ vmf = Vmf_default
    /\ pc = "input"

\* the caller built a document with Block::new and Vmf::new
InitBuilt ==
    /\ InitCommon
    /\ items = <<>>
    /\ input = <<>>
    /\ vmf \in BuiltDocs
    /\ pc = "doc"

\* parse::<_, E>(input)
Parse(E) ==
    /\ pc = "input"
    /\ result' = parse(E, input)
    /\ vmf' = IF result'.ok THEN result'.vmf ELSE vmf
    /\ pc' = IF result'.ok THEN "doc" ELSE "failed"
    /\ UNCHANGED <<input, output, mode, state, prev, round, items>>

\* vmf.to_string()
to_string ==
    /\ pc = "doc"
    /\ LET r == Display_Vmf(vmf, FALSE)
       IN output' = r.text /\ state' = r.state
    /\ mode' = "canon"
    /\ pc' = "text"
    /\ UNCHANGED <<input, result, vmf, prev, round, items>>

RECURSIVE without_ids(_)
\* the block b with the id properties taken out, in b and below it
without_ids(b) ==
    Block_new(b.name, SelectSeq(b.props, LAMBDA p : ~is_id(p)),
              [k \in 1..Len(b.blocks) |-> without_ids(b.blocks[k])])

\* a to_string_new_ids that renumbers in the tree: the original id
\* properties are taken out of the document as it is rendered
to_string_new_ids_in_place ==
    /\ pc = "doc"
    /\ LET r == Display_Vmf(vmf, TRUE)
       IN output' = r.text /\ state' = r.state
    /\ vmf' = [inner |-> without_ids(vmf.inner)]
    /\ mode' = "ids"
    /\ pc' = "text"
    /\ UNCHANGED <<input, result, prev, round, items>>

\* vmf.to_string_new_ids()
to_string_new_ids ==
    /\ pc = "doc"
    /\ LET r == Display_Vmf(vmf, TRUE)
       IN output' = r.text /\ state' = r.state
    /\ mode' = "ids"
    /\ pc' = "text"
    /\ UNCHANGED <<input, result, vmf, prev, round, items>>

\* the caller hands the rendered text back to parse
Feed ==
    /\ pc = "text"
    /\ round < MaxRounds
    /\ Len(output) <= MaxText
    /\ input' = output
    /\ prev' = [vmf |-> vmf, mode |-> mode]
    /\ round' = round + 1
    /\ result' = NoResult
    /\ pc' = "input"
    /\ UNCHANGED <<vmf, output, mode, state, items>>

ParseAny == \E E \in ErrorTypes : Parse(E)

Next == ParseAny \/ to_string \/ to_string_new_ids \/ Feed

Spec == Init /\ [][Next]_vars
SpecRaw == InitRaw /\ [][Next]_vars
SpecBuilt == InitBuilt /\ [][Next]_vars

\* the documents a caller renders again and again: fewer blocks than
\* MaxBlocks
RenderDocs == {Vmf_new(Forest(ns, 0)) : ns \in {ms \in PreOrders : Len(ms) < MaxBlocks}}

\* the documents a caller turns to between two renders: one block each
LoadDocs == {Vmf_new(<<Block_new(t.name, t.props, <<>>)>>) : t \in Templates}

\* the caller built a document that it will render several times
InitRender ==
    /\ InitCommon
    /\ items = <<>>
    /\ input = <<>>
    /\ vmf \in RenderDocs
    /\ pc = "doc"

\* the caller keeps the document for another render; prev is the document
\* and the renderer of the call just made
Again ==
    /\ pc = "text"
    /\ prev' = [vmf |-> vmf, mode |-> mode]
    /\ pc' = "doc"
    /\ UNCHANGED <<input, result, vmf, output, mode, state, round, items>>

\* the caller turns to another document for the next render
Load ==
    /\ pc = "text"
    /\ vmf' \in LoadDocs
    /\ prev' = [vmf |-> vmf, mode |-> mode]
    /\ pc' = "doc"
    /\ UNCHANGED <<input, result, output, mode, state, round, items>>

NextRender == to_string \/ to_string_new_ids \/ Again \/ Load

SpecRender == InitRender /\ [][NextRender]_vars

-----------------------------------------------------------------------------
(* Properties *)

\* parse has returned for the first input text
ParsedFirst == round = 0 /\ result # NoResult

\* parse has returned for a text that to_string produced
ParsedCanonical == round >= 1 /\ prev.mode = "canon" /\ result # NoResult

\* C1: a text in canonical form with no comments parses, and the canonical
\* rendering of the parsed document is that text again: whenever the text
\* to_string produced is parsed and rendered with to_string, the second
\* rendering equals the first
C1_CanonicalRoundTrip ==
    ParsedCanonical =>
        /\ result.ok
        /\ (pc = "text" /\ mode = "canon") => output = input

\* C2: for an input that parses, parsing the canonical rendering of its
\* document succeeds and gives a structurally equal document
C2_RenderedParsesEqual ==
    ParsedCanonical => (result.ok /\ result.vmf = prev.vmf)

\* s is one top-level block that lacks nothing but its closing brace: with
\* a '}' added at the end it is one block that takes the whole text
UnclosedTop(s) ==
    LET r == block("unit", s \o <<"}">>, 1)
    IN r.ok /\ r.i = Len(s) + 2

\* the block s would be with its closing brace
ClosedBlock(s) == block("unit", s \o <<"}">>, 1).val

LeftOver(s) == SubSeq(s, vmf_parser("unit", s, 1).i, Len(s))

\* C4: parse returns an error when a top-level block is malformed or text
\* that is neither a block nor ignorable follows the last block: when parse
\* returns a document, nothing but comments and whitespace is left over
C4_NoPartialTree ==
    (ParsedFirst /\ result.ok) =>
        many0_count_ignorable("unit", LeftOver(input), 1) = Len(LeftOver(input)) + 1

RecognizedNames == {WORLD, SOLID, SIDE, ENTITY}

RECURSIVE PreOrder(_)
\* the blocks below bs in depth-first pre-order, children in stored order
PreOrder(bs) ==
    Concat([k \in 1..Len(bs) |-> <<bs[k]>> \o PreOrder(bs[k].blocks)])

\* the blocks of document v named c, in pre-order
NamedBlocks(v, c) == SelectSeq(PreOrder(v.inner.blocks), LAMBDA b : b.name = c)

\* the properties the k-th block of its class is to show: "id" "k", then
\* its properties without those whose key is id
RenumberedProps(b, k) ==
    <<Property_new(ID_KEY, ToDecimal(k))>> \o SelectSeq(b.props, LAMBDA p : ~is_id(p))

\* C5: under to_string_new_ids the k-th block of each recognized class, in
\* pre-order over the whole document, shows "id" "k" first, none of its
\* original id properties, and its other properties in their order: the
\* blocks of that class read back from the output are exactly these
C5_RenumberedInPreOrder ==
    (pc = "text" /\ mode = "ids") =>
        LET r == parse("unit", output)
        IN /\ r.ok
           /\ \A c \in RecognizedNames :
                 LET got == NamedBlocks(r.vmf, c)
                     want == NamedBlocks(vmf, c)
                 IN /\ Len(got) = Len(want)
                    /\ \A k \in 1..Len(want) :
                          got[k].props = RenumberedProps(want[k], k)

\* C6: under to_string_new_ids a block with any other name is rendered as
\* to_string renders it and changes no counter: a document with no block
\* of a recognized class renders the same either way, all counters at 0
C6_UnrecognizedVerbatim ==
    (pc = "text" /\ mode = "ids"
       /\ \A c \in RecognizedNames : NamedBlocks(vmf, c) = <<>>) =>
        (output = Display_Vmf(vmf, FALSE).text /\ state = IdState_default)

\* the character at k lies inside a quoted string
InString(s, k) == Cardinality({j \in 1..(k - 1) : s[j] = Quote}) % 2 = 1

\* s without the whitespace outside quoted strings
StripWhitespace(s) ==
    Concat([k \in 1..Len(s) |->
              IF IsMultispace(s[k]) /\ ~InString(s, k) THEN <<>> ELSE <<s[k]>>])

\* s with a line end added around each brace outside quoted strings and
\* after each closing quote
AddWhitespace(s) ==
    Concat([k \in 1..Len(s) |->
              IF s[k] \in {"{", "}"} /\ ~InString(s, k) THEN <<NL, s[k], NL>>
              ELSE IF s[k] = Quote /\ InString(s, k) THEN <<s[k], NL>>
              ELSE <<s[k]>>])

CommentFree(s) == \A k \in 1..Len(s) : s[k] # "/"

\* C7: for a comment-free input that parses, the same text without the
\* whitespace outside strings, or with more of it, parses to the same
\* document
C7_WhitespaceInsensitive ==
    (ParsedFirst /\ result.ok /\ CommentFree(input)) =>
        /\ parse("unit", StripWhitespace(input)) = result
        /\ parse("unit", AddWhitespace(input)) = result

\* C8: the parsed block holds its properties in source order and its child
\* blocks in source order however they are interleaved with each other and
\* with comments; equal keys and empty strings are kept
C8_SourceOrderKept ==
    ParsedFirst =>
        /\ result.ok
        /\ result.vmf =
              Vmf_new(<<Block_new(<<"A">>, ItemProps(items), ItemBlocks(items))>>)

\* parsed: two properties with the same key around a child block or a
\* comment, and a property with empty key and value
C8_Witness ==
    /\ ParsedFirst
    /\ pc = "doc"
    /\ Len(items) = 3
    /\ items[1].kind = "prop" /\ items[3].kind = "prop"
    /\ items[2].kind \in {"block", "comment"}
    /\ items[1].key = items[3].key
    /\ Len(vmf.inner.blocks[1].props) = 2

\* s is a block whose body is one quoted string and nothing else
LoneStringBlock(s) ==
    LET name == block_name("unit", s, 1)
        key == string("unit", s, name.i)
        close == ignore_whitespace_char("unit", s, key.i, "}")
    IN name.ok /\ key.ok /\ close.ok /\ close.i = Len(s) + 1

\* where the second string of that property would start
SecondStringAt(s) ==
    multispace0(s, string("unit", s, block_name("unit", s, 1).i).i)

\* C9: every error instantiation accepts or rejects an input alike; a block
\* whose body is one quoted string is rejected under each, every position
\* in the error at or before the place of the missing second string
C9_SameVerdictAllErrors ==
    ParsedFirst =>
        \A E \in ErrorTypes :
           LET r == parse(E, input)
           IN /\ r.ok = result.ok
              /\ LoneStringBlock(input) =>
                    /\ ~r.ok
                    /\ \A k \in DOMAIN r.err : r.err[k].pos <= SecondStringAt(input)

\* a block holding one string was parsed with position-carrying errors
C9_Witness ==
    /\ ParsedFirst
    /\ LoneStringBlock(input)
    /\ pc = "failed"
    /\ result.etype = "tuple"
    /\ result.err # <<>>

\* s holds no block: nothing but comments and whitespace (or nothing at
\* all), or a brace where the first block name should be
ZeroBlocks(s) ==
    LET i == many0_count_ignorable("unit", s, 1)
    IN i = Len(s) + 1 \/ s[i] \in {"{", "}"}

\* C10: parse fails on an input with zero top-level blocks, and so does the
\* block parser
C10_ZeroBlocksRejected ==
    (ParsedFirst /\ ZeroBlocks(input)) =>
        /\ ~result.ok
        /\ \A E \in ErrorTypes : ~block(E, input, 1).ok

\* an input of a comment and whitespace only was parsed and rejected
C10_Witness ==
    /\ ParsedFirst
    /\ pc = "failed"
    /\ input = <<"/", "/", "c", NL>>

\* how many blocks of each recognized class the document v holds
ClassCounts(v) ==
    [max_world_id |-> Len(NamedBlocks(v, WORLD)),
     max_solid_id |-> Len(NamedBlocks(v, SOLID)),
     max_side_id |-> Len(NamedBlocks(v, SIDE)),
     max_entity_id |-> Len(NamedBlocks(v, ENTITY))]

\* t begins with p
IsPrefix(p, t) == Len(p) <= Len(t) /\ SubSeq(t, 1, Len(p)) = p

\* every to_string_new_ids counts from 0: the counters it ends with are the
\* numbers of blocks of each class in the document it rendered, and a first
\* block of a recognized class shows "id" "1"
C11_CountsFromZero ==
    (pc = "text" /\ mode = "ids") =>
        /\ state = ClassCounts(vmf)
        /\ vmf.inner.blocks[1].name \in RecognizedNames =>
              IsPrefix(vmf.inner.blocks[1].name \o <<NL, "{", NL, TAB>> \o id_line(1), output)

\* to_string_new_ids of the document that the call before rendered with
\* to_string_new_ids gives the same text again
C11_SameTextAgain ==
    (to_string_new_ids /\ prev = [vmf |-> vmf, mode |-> "ids"]) => output' = output

\* C11: the counters are local to one call of to_string_new_ids: each call
\* counts from 0 whatever was rendered before, this document or another,
\* and rendering the same document again gives the same text
C11_CountersPerCall == []C11_CountsFromZero /\ [][C11_SameTextAgain]_vars

\* a document with a side block was renumbered right after another document
\* with a side block was
C11_Witness ==
    /\ pc = "text"
    /\ mode = "ids"
    /\ prev.mode = "ids"
    /\ prev.vmf # vmf
    /\ NamedBlocks(prev.vmf, SIDE) # <<>>
    /\ NamedBlocks(vmf, SIDE) # <<>>

\* the places of the line ends of t, in order
LineEnds(t) ==
    LET nl == {k \in 1..Len(t) : t[k] = NL}
    IN [j \in 1..Cardinality(nl) |->
          CHOOSE k \in nl : Cardinality({q \in nl : q < k}) = j - 1]

\* the lines of t: what lies between its line ends
Lines(t) ==
    LET cuts == <<0>> \o LineEnds(t) \o <<Len(t) + 1>>
    IN [j \in 1..(Len(cuts) - 1) |-> SubSeq(t, cuts[j] + 1, cuts[j + 1] - 1)]

\* the lines of t that start in column 0
TopLines(t) == SelectSeq(Lines(t), LAMBDA l : l = <<>> \/ l[1] # TAB)

\* the lines in column 0 of a rendering of the top-level blocks bs: for
\* each block its name, its '{' and its '}'
TopLinesOf(bs) == Concat([k \in 1..Len(bs) |-> <<bs[k].name, <<"{">>, <<"}">>>>])

\* C12: a document that parse returns is a root block named 'root' with no
\* properties and at least one child; both renderers write the children of
\* the root and, for the root itself, no name, no brace and no id line: the
\* lines in column 0 are those of the top-level blocks
C12_RootIsSynthetic ==
    /\ (ParsedFirst /\ result.ok) =>
          /\ result.vmf.inner.name = ROOT_NAME
          /\ result.vmf.inner.props = <<>>
          /\ result.vmf.inner.blocks # <<>>
    /\ pc = "text" => TopLines(output) = TopLinesOf(vmf.inner.blocks)

\* a parsed document of two top-level blocks was rendered with new ids
C12_Witness ==
    /\ round = 0
    /\ result.ok
    /\ pc = "text"
    /\ mode = "ids"
    /\ Len(vmf.inner.blocks) = 2

Tabs(d) == [k \in 1..d |-> TAB]

\* a line that is to be exactly text, or (whole = FALSE) to end with text
Whole(text) == [text |-> text, whole |-> TRUE]
EndsWith(text) == [text |-> text, whole |-> FALSE]

\* the lines of the property p in a block at depth d - 1: "key" "value"
\* after d tabs; where the key or the value holds line ends the property
\* goes on over further lines, of which only the ends are looked at
PropertyLines(p, d) ==
    LET ls == Lines(<<Quote>> \o p.key \o <<Quote, " ", Quote>> \o p.value \o <<Quote>>)
    IN [j \in 1..Len(ls) |->
          IF j = 1 THEN Whole(Tabs(d) \o ls[j]) ELSE EndsWith(ls[j])]

RECURSIVE LayoutLines(_, _)
\* the lines of block b at depth d: name, '{' and '}' after d tabs, the
\* properties after d + 1 tabs, the children one level deeper
LayoutLines(b, d) ==
    <<Whole(Tabs(d) \o b.name), Whole(Tabs(d) \o <<"{">>)>>
    \o Concat([k \in 1..Len(b.props) |-> PropertyLines(b.props[k], d + 1)])
    \o Concat([k \in 1..Len(b.blocks) |-> LayoutLines(b.blocks[k], d + 1)])
    \o <<Whole(Tabs(d) \o <<"}">>)>>

\* t ends with e
IsSuffix(e, t) == Len(e) <= Len(t) /\ SubSeq(t, Len(t) - Len(e) + 1, Len(t)) = e

\* the lines ls are what the layout ps asks for, line by line
MatchesLayout(ls, ps) ==
    /\ Len(ls) = Len(ps)
    /\ \A j \in 1..Len(ps) :
          IF ps[j].whole THEN ls[j] = ps[j].text ELSE IsSuffix(ps[j].text, ls[j])

\* C13: to_string writes a block at depth d with its name, '{' and '}' each
\* on a line of its own after exactly d tabs and each property line after
\* exactly d + 1 tabs; the top-level blocks follow each other with one line
\* end between them and nothing comes after the last '}'
C13_CanonicalLayout ==
    (pc = "text" /\ mode = "canon") =>
        MatchesLayout(Lines(output),
            Concat([k \in 1..Len(vmf.inner.blocks) |->
                      LayoutLines(vmf.inner.blocks[k], 0)]))

\* rendered: two top-level blocks, the first with a child that has
\* properties
C13_Witness ==
    /\ pc = "text"
    /\ mode = "canon"
    /\ Len(vmf.inner.blocks) = 2
    /\ vmf.inner.blocks[1].blocks # <<>>
    /\ vmf.inner.blocks[1].blocks[1].props # <<>>

\* the places in the chain e of the context ctx
ContextAt(e, ctx) == {k \in DOMAIN e : e[k].tag = "Context" /\ e[k].what = ctx}

\* where the body of the block s starts
BodyStart(s) == block_name("unit", s, 1).i

IdProps(v) ==
    [k \in 1..Len(PreOrder(v.inner.blocks)) |->
       SelectSeq(PreOrder(v.inner.blocks)[k].props, is_id)]

\* the document is one the caller built, and a to_string that follows a
\* to_string_new_ids of the same document shows the id properties of every
\* block as they were built
C15_OriginalIdsShown ==
    /\ vmf \in RenderDocs \cup LoadDocs
    /\ (pc = "text" /\ mode = "canon" /\ prev = [vmf |-> vmf, mode |-> "ids"]) =>
          LET r == parse("unit", output)
          IN r.ok /\ IdProps(r.vmf) = IdProps(vmf)

\* a step of to_string_new_ids leaves the document as it is
C15_TreeUnchanged == to_string_new_ids => vmf' = vmf

\* C15: to_string_new_ids does not change the document: the tree is the
\* same value after it as before, and to_string still shows every original
\* id property with its original value
C15_RenumberingKeepsTree == []C15_OriginalIdsShown /\ [][C15_TreeUnchanged]_vars

\* a document with a side block and its original id was rendered with
\* to_string right after it was rendered with to_string_new_ids
C15_Witness ==
    /\ pc = "text"
    /\ mode = "canon"
    /\ prev = [vmf |-> vmf, mode |-> "ids"]
    /\ NamedBlocks(vmf, SIDE) # <<>>
    /\ NamedBlocks(vmf, SOLID) # <<>>

RECURSIVE ShapeOf(_)
\* the names of the blocks of bs with their nesting and order
ShapeOf(bs) == [k \in 1..Len(bs) |-> [name |-> bs[k].name, blocks |-> ShapeOf(bs[k].blocks)]]

\* C16: to_string_new_ids keeps the shape of the document whatever the
\* names of its blocks: the output reads back as a tree with the same
\* blocks at the same depth and sibling position, each block once
C16_ShapePreserved ==
    (pc = "text" /\ mode = "ids") =>
        LET r == parse("unit", output)
        IN /\ r.ok
           /\ Len(PreOrder(r.vmf.inner.blocks)) = Len(PreOrder(vmf.inner.blocks))
           /\ ShapeOf(r.vmf.inner.blocks) = ShapeOf(vmf.inner.blocks)

\* an iteration of the body loop at i that goes on with the loop has taken
\* at least one character: this holds of ignorable, property and block, the
\* three branches that do not leave the loop
ConsumesAt(s, i) ==
    /\ IfLetOk(ignorable("unit", s, i), LAMBDA g : g.i > i, LAMBDA g : TRUE)
    /\ IfLetOk(property("unit", s, i), LAMBDA p : p.i > i, LAMBDA p : TRUE)
    /\ IfLetOk(block("unit", s, i), LAMBDA b : b.i > i /\ b.i <= Len(s) + 1, LAMBDA b : TRUE)

\* C17: wherever in the input an iteration of the body loop starts, it
\* either takes at least one character or leaves the loop, so that the
\* loop ends within the length of the input; parse ends with a tree or
\* with an error
C17_BodyLoopProgress ==
    /\ \A i \in 1..(Len(input) + 1) : ConsumesAt(input, i)
    /\ ParsedFirst => (result.ok <=> pc # "failed")

\* parsed: a block whose body holds a property, a child block and a
\* comment or whitespace
C17_Witness ==
    /\ ParsedFirst
    /\ pc = "doc"
    /\ \E a, b, c \in DOMAIN items :
          /\ items[a].kind = "prop"
          /\ items[b].kind = "block"
          /\ items[c].kind \in {"comment", "space"}

=============================================================================
